---- MODULE Spec2Model ----
(***************************************************************************)
(* Model of the whois client of src/src/whois/main.rs: argument parsing,   *)
(* the query/response exchange and the referral loop of main().            *)
(* Strings are sequences of one-character strings, so that prefix          *)
(* matching, trimming, lower-casing, port parsing and line splitting are   *)
(* computed the way the code computes them.                                *)
(***************************************************************************)
EXTENDS Integers, Sequences, FiniteSets, TLC

\* ------------------------------------------------------------------ bounds
\* Longest argument list explored.
MaxArgs == 3
\* Number of servers, taken from ServerNames, that answer in a world.
NumServers == 3

\* ------------------------------------------------------- characters, strings
UpperSeq == <<"A", "B", "C", "D", "E", "F", "G", "H", "I", "J", "K", "L", "M", "N", "O", "P", "Q", "R", "S", "T", "U", "V", "W", "X", "Y", "Z">>
LowerSeq == <<"a", "b", "c", "d", "e", "f", "g", "h", "i", "j", "k", "l", "m", "n", "o", "p", "q", "r", "s", "t", "u", "v", "w", "x", "y", "z">>
DigitSeq == <<"0", "1", "2", "3", "4", "5", "6", "7", "8", "9">>

Range(s) == {s[i] : i \in 1..Len(s)}

IndexOf(s, c) == CHOOSE i \in 1..Len(s) : s[i] = c

UpperSet == Range(UpperSeq)

AlphanumericSet == Range(UpperSeq) \cup Range(LowerSeq) \cup Range(DigitSeq)

\* char::is_ascii_alphanumeric
is_ascii_alphanumeric(c) == c \in AlphanumericSet

\* char::is_whitespace, on the characters used here
is_whitespace(c) == c \in {" ", "\t", "\n", "\r", "\f"}

\* str::to_ascii_lowercase
ToLowerChar(c) == IF c \in UpperSet THEN LowerSeq[IndexOf(UpperSeq, c)] ELSE c

to_ascii_lowercase(s) == [i \in 1..Len(s) |-> ToLowerChar(s[i])]

\* str::trim_left
RECURSIVE trim_left(_)
trim_left(s) ==
    IF s # <<>> /\ is_whitespace(Head(s)) THEN trim_left(Tail(s)) ELSE s

\* The closure without the period among the hostname characters.
NotHostChar_period(c) == ~(is_ascii_alphanumeric(c) \/ c = "-")

\* The closure handed to trim_right_matches at lines 105-107.
NotHostChar(c) == ~(is_ascii_alphanumeric(c) \/ c = "." \/ c = "-")

\* str::trim_right_matches with that closure
RECURSIVE trim_right_matches(_)
trim_right_matches(s) ==
    IF s # <<>> /\ NotHostChar(s[Len(s)])
    THEN trim_right_matches(SubSeq(s, 1, Len(s) - 1))
    ELSE s

\* A prefix test that ignores the case of ASCII letters.
starts_with_nocase(s, p) ==
    Len(p) <= Len(s) /\ \A i \in 1..Len(p) : ToLowerChar(s[i]) = ToLowerChar(p[i])

\* str::starts_with
starts_with(s, p) == Len(p) <= Len(s) /\ \A i \in 1..Len(p) : s[i] = p[i]

\* A join that forgets the separator.
RECURSIVE join_nosep(_, _)
join_nosep(v, sep) ==
    IF v = <<>> THEN <<>> ELSE v[1] \o join_nosep(Tail(v), sep)

\* [String]::join
RECURSIVE join(_, _)
join(v, sep) ==
    IF v = <<>> THEN <<>>
    ELSE IF Len(v) = 1 THEN v[1]
    ELSE v[1] \o sep \o join(Tail(v), sep)

\* str::parse::<u16>: an optional '+', then at least one decimal digit, the
\* value accumulated with checked arithmetic in 16 bits.
U16Max == 65535

\* Accumulation with wrapping instead of checked arithmetic.
RECURSIVE ParseDigits_wrap(_, _)
ParseDigits_wrap(s, acc) ==
    IF s = <<>> THEN [ok |-> TRUE, num |-> acc]
    ELSE IF Head(s) \notin Range(DigitSeq) THEN [ok |-> FALSE, num |-> 0]
    ELSE ParseDigits_wrap(Tail(s),
                          (acc * 10 + (IndexOf(DigitSeq, Head(s)) - 1)) % 65536)

RECURSIVE ParseDigits(_, _)
ParseDigits(s, acc) ==
    IF s = <<>> THEN [ok |-> TRUE, num |-> acc]
    ELSE IF Head(s) \notin Range(DigitSeq) THEN [ok |-> FALSE, num |-> 0]
    ELSE LET v == acc * 10 + (IndexOf(DigitSeq, Head(s)) - 1)
         IN  IF v > U16Max THEN [ok |-> FALSE, num |-> 0]
             ELSE ParseDigits(Tail(s), v)

ParseU16(s) ==
    LET digits == IF s # <<>> /\ Head(s) = "+" THEN Tail(s) ELSE s
    IN  IF digits = <<>> THEN [ok |-> FALSE, num |-> 0]
        ELSE ParseDigits(digits, 0)

\* BufRead::read_line: the bytes up to and including the first line feed,
\* or everything that is left when there is none.
RECURSIVE LineLen(_)
LineLen(s) ==
    IF s = <<>> THEN 0
    ELSE IF Head(s) = "\n" THEN 1
    ELSE 1 + LineLen(Tail(s))

\* ------------------------------------------------------------ string literals
EmptyStr == <<>>
DefaultHost == <<"w", "h", "o", "i", "s", ".", "i", "a", "n", "a", ".", "o", "r", "g">>
OptHelp == <<"-", "-", "h", "e", "l", "p">>
OptHost == <<"-", "h">>
OptPort == <<"-", "p">>
Usage == <<"U", "s", "a", "g", "e", ":", " ", "w", "h", "o", "i", "s", " ", "[", "-", "h", " ", "h", "o", "s", "t", "n", "a", "m", "e", "]", " ", "[", "-", "p", " ", "p", "o", "r", "t", "]", " ", "q", "u", "e", "r", "y", "\n">>
Space == <<" ">>
CrLf == <<"\r", "\n">>
Lf == <<"\n">>
HostB == <<"b">>
HostC == <<"c">>
HostD == <<"d">>
ArgUpperB == <<"B">>
ArgSeven == <<"7">>
ArgTooBig == <<"6", "5", "5", "3", "6">>
PrefixWhois == <<"w", "h", "o", "i", "s", ":">>
PrefixWhoisServer == <<"W", "h", "o", "i", "s", " ", "S", "e", "r", "v", "e", "r", ":">>
PrefixRegistrar == <<"R", "e", "g", "i", "s", "t", "r", "a", "r", " ", "W", "H", "O", "I", "S", " ", "S", "e", "r", "v", "e", "r", ":">>
PrefixReferralServer == <<"R", "e", "f", "e", "r", "r", "a", "l", "S", "e", "r", "v", "e", "r", ":", " ", " ", "w", "h", "o", "i", "s", ":", "/", "/">>
PrefixDescr == <<"d", "e", "s", "c", "r", ":", " ", " ", " ", " ", " ", " ", " ", " ", " ", " ", "r", "e", "g", "i", "o", "n", ".", " ", "P", "l", "e", "a", "s", "e", " ", "q", "u", "e", "r", "y">>
RespPlain == <<"x", "\r", "\n", "y">>
RespToB == <<"w", "h", "o", "i", "s", ":", " ", "b", "\n", "z", "\n">>
RespToC == <<"k", "\n", " ", "\t", "R", "e", "f", "e", "r", "r", "a", "l", "S", "e", "r", "v", "e", "r", ":", " ", " ", "w", "h", "o", "i", "s", ":", "/", "/", "C", "/", "\n", "w", "h", "o", "i", "s", ":", " ", "b", "\n">>
RespToIana == <<"R", "e", "g", "i", "s", "t", "r", "a", "r", " ", "W", "H", "O", "I", "S", " ", "S", "e", "r", "v", "e", "r", ":", " ", "W", "H", "O", "I", "S", ".", "i", "a", "n", "a", ".", "o", "r", "g", "\r", "\n">>
RespToD == <<"d", "e", "s", "c", "r", ":", " ", " ", " ", " ", " ", " ", " ", " ", " ", " ", "r", "e", "g", "i", "o", "n", ".", " ", "P", "l", "e", "a", "s", "e", " ", "q", "u", "e", "r", "y", " ", "d", "\n">>
RespDot == <<"W", "h", "o", "i", "s", " ", "S", "e", "r", "v", "e", "r", ":", " ", " ", " ", "e", "x", "a", "m", "p", "l", "e", ".", "n", "e", "t", ".", "\n">>
RespPort == <<"R", "e", "f", "e", "r", "r", "a", "l", "S", "e", "r", "v", "e", "r", ":", " ", " ", "w", "h", "o", "i", "s", ":", "/", "/", "b", ":", "4", "3", "\n">>
RespEmpty == <<"w", "h", "o", "i", "s", ":", " ", " ", "\n", "w", "h", "o", "i", "s", ":", " ", "b", "\n">>
RespWrongCase == <<"W", "H", "O", "I", "S", " ", "S", "E", "R", "V", "E", "R", ":", " ", "E", "x", "a", "m", "p", "l", "e", ".", "C", "O", "M", "\n">>
MsgOption == <<"o", "p", "t", "i", "o", "n", " ", "'">>
MsgRequires == <<"'", " ", "r", "e", "q", "u", "i", "r", "e", "s", " ", "a", "n", " ", "a", "r", "g", "u", "m", "e", "n", "t">>
MsgFailedParse == <<"f", "a", "i", "l", "e", "d", " ", "t", "o", " ", "p", "a", "r", "s", "e", " ", "'">>
MsgQuoteComma == <<"'", ",", " ">>
MsgComma == <<",", " ">>
MsgSending == <<"E", "r", "r", "o", "r", " ", "s", "e", "n", "d", "i", "n", "g", " ", "t", "o", " ">>
MsgPrinting == <<"E", "r", "r", "o", "r", " ", "p", "r", "i", "n", "t", "i", "n", "g", " ", "w", "h", "o", "i", "s", " ", "d", "a", "t", "a", " ", "f", "r", "o", "m", " ">>
MsgReading == <<"E", "r", "r", "o", "r", " ", "r", "e", "a", "d", "i", "n", "g", " ", "f", "r", "o", "m", " ">>
MsgConnect == <<"F", "a", "i", "l", "e", "d", " ", "t", "o", " ", "c", "o", "n", "n", "e", "c", "t", " ", "t", "o", " ">>
MsgLoop == <<"E", "r", "r", "o", "r", ":", " ", "D", "e", "t", "e", "c", "t", "e", "d", " ", "w", "h", "o", "i", "s", " ", "r", "e", "f", "e", "r", "r", "a", "l", " ", "l", "o", "o", "p", " ", "b", "e", "t", "w", "e", "e", "n", " ", "h", "o", "s", "t", "s", ":", "\n">>
ErrDescription == <<"e", "r", "r", "o", "r">>

\* The prefix array of lines 92-98, in its order.
Prefixes ==
    <<PrefixWhois, PrefixWhoisServer, PrefixRegistrar, PrefixReferralServer, PrefixDescr>>

\* The for loop of lines 92-126: index of the first prefix the trimmed line
\* starts with, 0 when the loop runs to its end.
RECURSIVE MatchFrom(_, _)
MatchFrom(t, i) ==
    IF i > Len(Prefixes) THEN 0
    ELSE IF starts_with(t, Prefixes[i]) THEN i
    ELSE MatchFrom(t, i + 1)

\* Lines 103-108: the text after the prefix, left-trimmed, right-trimmed of
\* everything that is not a hostname character, lower-cased.
ExtractHost(after) ==
    to_ascii_lowercase(trim_right_matches(trim_left(after)))

\* position that starts its search at the second element.
position_skip(v, x) ==
    LET S == {i \in 2..Len(v) : v[i] = x}
    IN  IF S = {} THEN 0 ELSE CHOOSE i \in S : \A j \in S : i <= j

\* Iterator::position at line 144: index of the first element equal to x, 0
\* for None.
RECURSIVE position(_, _)
position(v, x) ==
    IF v = <<>> THEN 0
    ELSE IF Head(v) = x THEN 1
    ELSE LET r == position(Tail(v), x) IN IF r = 0 THEN 0 ELSE r + 1

\* A print that is lost.
print_str_lost(out, s) == out

\* print!("{}", line) at line 90: the text is appended to standard output.
print_str(out, s) == out \o s

\* A copy that forwards nothing.
io_copy_nothing(out, bytes) == out

\* std::io::copy at lines 111-114: the bytes are appended to standard output.
io_copy(out, bytes) == out \o bytes

\* A stream that is never closed.
drop_stream_leak(o, id) == o

\* The end of the Ok arm at line 132: the reader, and the stream it owns,
\* goes out of scope and the connection is closed.
drop_stream(o, id) == o \ {id}

\* The self-referral test left out.
SelfReferral_never(h, n) == FALSE

\* The test of line 137.
SelfReferral(h, n) == h = n

\* An insertion at the front instead of a push at the back.
push_front(v, x) == <<x>> \o v

\* A push that is lost.
push_lost(v, x) == v

\* Vec::push at line 153.
push(v, x) == Append(v, x)

\* ------------------------------------------------------------- environment
ServerNames == <<DefaultHost, HostB, HostC, HostD>>

Servers == {ServerNames[i] : i \in 1..NumServers}

Responses ==
    {RespPlain, RespToB, RespToC, RespToIana, RespToD, RespDot, RespPort,
     RespEmpty, RespWrongCase}

\* A world gives every server the bytes it answers with.
Worlds == [Servers -> Responses]

BaseWorld ==
    [s \in Servers |-> IF s = DefaultHost THEN RespToB
                       ELSE IF s = HostB THEN RespToC
                       ELSE RespPlain]

Tokens ==
    {OptHelp, OptHost, OptPort, ArgUpperB, ArgSeven, ArgTooBig, EmptyStr}

ArgLists == UNION {[1..n -> Tokens] : n \in 0..MaxArgs}

EngineArgs ==
    {<<>>, <<OptHost, ArgUpperB>>, <<OptPort, ArgSeven, ArgUpperB>>}

\* ------------------------------------------------------------------- state
VARIABLES
    argv,            \* the process arguments after the program name
    argi,            \* position of the args iterator: index of the next item
    host,            \* line 41
    port,            \* line 42
    query_vec,       \* line 47
    query,           \* line 43
    previous_hosts,  \* line 69
    nhost,           \* line 71
    line,            \* line 85
    rest,            \* bytes of the open stream not read yet
    net,             \* the world: server name -> response bytes
    open,            \* connections that are open, numbered in connect order
    stdout,
    stderr,
    exit_code,       \* -1 while the process runs
    pc,              \* position of main
    connects,        \* history: <<host, port>> of every connect call
    sent,            \* history: what every completed write sent, and where
    fault            \* history: the exchange primitive that returned Err

vars ==
    <<argv, argi, host, port, query_vec, query, previous_hosts, nhost, line,
      rest, net, open, stdout, stderr, exit_code, pc, connects, sent, fault>>

Init ==
    /\ \/ argv \in ArgLists /\ net = BaseWorld
       \/ argv \in EngineArgs /\ net \in Worlds
    /\ argi = 1
    /\ host = DefaultHost
    /\ port = 43
    /\ query_vec = <<>>
    /\ query = <<>>
    /\ previous_hosts = <<>>
    /\ nhost = <<>>
    /\ line = <<>>
    /\ rest = <<>>
    /\ open = {}
    /\ stdout = <<>>
    /\ stderr = <<>>
    /\ exit_code = -1
    /\ pc = "args"
    /\ connects = <<>>
    /\ sent = <<>>
    /\ fault = "none"

\* fatal_error that prints with eprint! instead of eprintln!.
fatal_error_nonewline(msg) ==
    /\ stderr' = stderr \o msg
    /\ exit_code' = 1
    /\ pc' = "exit"

\* fatal_error that exits with status 0.
fatal_error_status0(msg) ==
    /\ stderr' = stderr \o msg \o Lf
    /\ exit_code' = 0
    /\ pc' = "exit"

\* fatal_error: the message and a newline on the error stream, exit(1).
fatal_error(msg) ==
    /\ stderr' = stderr \o msg \o Lf
    /\ exit_code' = 1
    /\ pc' = "exit"

\* ------------------------------------------------------- argument parsing
\* "--help" arm, lines 51-54.
ArgHelp ==
    /\ pc = "args" /\ argi <= Len(argv) /\ argv[argi] = OptHelp
    /\ argi' = argi + 1
    /\ stdout' = stdout \o Usage
    /\ exit_code' = 0
    /\ pc' = "exit"
    /\ UNCHANGED <<argv, host, port, query_vec, query, previous_hosts, nhost,
                   line, rest, net, open, stderr, connects, sent, fault>>

\* "-h" arm, lines 55-56, with next_required_arg, lines 29-37.
ArgHost ==
    /\ pc = "args" /\ argi <= Len(argv) /\ argv[argi] = OptHost
    /\ IF argi + 1 <= Len(argv)
       THEN /\ argi' = argi + 2
            /\ host' = to_ascii_lowercase(argv[argi + 1])
            /\ UNCHANGED <<stderr, exit_code, pc>>
       ELSE /\ argi' = argi + 1
            /\ fatal_error(MsgOption \o OptHost \o MsgRequires)
            /\ UNCHANGED host
    /\ UNCHANGED <<argv, port, query_vec, query, previous_hosts, nhost, line,
                   rest, net, open, stdout, connects, sent, fault>>

\* "-p" arm, lines 57-61, with next_required_arg, lines 29-37.
ArgPort ==
    /\ pc = "args" /\ argi <= Len(argv) /\ argv[argi] = OptPort
    /\ IF argi + 1 <= Len(argv)
       THEN LET s == argv[argi + 1]
                r == ParseU16(s)
            IN  /\ argi' = argi + 2
                /\ IF r.ok
                   THEN /\ port' = r.num
                        /\ UNCHANGED <<stderr, exit_code, pc>>
                   ELSE /\ fatal_error(MsgFailedParse \o s \o MsgQuoteComma
                                        \o ErrDescription)
                        /\ UNCHANGED port
       ELSE /\ argi' = argi + 1
            /\ fatal_error(MsgOption \o OptPort \o MsgRequires)
            /\ UNCHANGED port
    /\ UNCHANGED <<argv, host, query_vec, query, previous_hosts, nhost, line,
                   rest, net, open, stdout, connects, sent, fault>>

\* The catch-all arm, line 62.
ArgQuery ==
    /\ pc = "args" /\ argi <= Len(argv)
    /\ argv[argi] \notin {OptHelp, OptHost, OptPort}
    /\ argi' = argi + 1
    /\ query_vec' = Append(query_vec, argv[argi])
    /\ UNCHANGED <<argv, host, port, query, previous_hosts, nhost, line, rest,
                   net, open, stdout, stderr, exit_code, pc, connects, sent,
                   fault>>

\* args.next() returns None: line 65.
ArgsDone ==
    /\ pc = "args" /\ argi > Len(argv)
    /\ query' = join(query_vec, Space)
    /\ pc' = "while"
    /\ UNCHANGED <<argv, argi, host, port, query_vec, previous_hosts, nhost,
                   line, rest, net, open, stdout, stderr, exit_code, connects,
                   sent, fault>>

\* ---------------------------------------------------------- referral loop
\* The loop condition of line 70 and line 71; falling out of the loop ends
\* main.
while_host_always(h) == TRUE

\* The loop condition host != "", line 70.
while_host(h) == h # EmptyStr

WhileHost ==
    /\ pc = "while"
    /\ IF while_host(host)
       THEN /\ nhost' = EmptyStr
            /\ pc' = "connect"
            /\ UNCHANGED exit_code
       ELSE /\ pc' = "Done"
            /\ exit_code' = 0
            /\ UNCHANGED nhost
    /\ UNCHANGED <<argv, argi, host, port, query_vec, query, previous_hosts,
                   line, rest, net, open, stdout, stderr, connects, sent, fault>>

\* TcpStream::connect, lines 73-75 and 133.  A name no server of the world
\* has cannot be connected to; a server may refuse.
Connect ==
    /\ pc = "connect"
    /\ connects' = Append(connects, <<host, port>>)
    /\ \E ok \in (IF host \in DOMAIN net THEN BOOLEAN ELSE {FALSE}) :
         IF ok
         THEN /\ open' = open \cup {Len(connects) + 1}
              /\ rest' = net[host]
              /\ pc' = "send"
              /\ UNCHANGED <<stderr, exit_code, fault>>
         ELSE /\ fault' = "connect"
              /\ fatal_error(MsgConnect \o host \o MsgComma \o ErrDescription)
              /\ UNCHANGED <<open, rest>>
    /\ UNCHANGED <<argv, argi, host, port, query_vec, query, previous_hosts,
                   nhost, line, net, stdout, sent>>

\* write!(stream, "{}\r\n", query), lines 77-79, then lines 84-85.
Send ==
    /\ pc = "send"
    /\ \E ok \in BOOLEAN :
         IF ok
         THEN /\ sent' = Append(sent, [host |-> host, port |-> port,
                                       bytes |-> query \o CrLf])
              /\ line' = <<>>
              /\ pc' = "read"
              /\ UNCHANGED <<open, stderr, exit_code, fault>>
         ELSE /\ fault' = "send"
              /\ open' = {}
              /\ fatal_error(MsgSending \o host \o MsgComma \o ErrDescription)
              /\ UNCHANGED <<sent, line>>
    /\ UNCHANGED <<argv, argi, host, port, query_vec, query, previous_hosts,
                   nhost, rest, net, stdout, connects>>

\* reader.read_line(&mut line) and print!, lines 87-90 and 128.  Ok(0) leaves
\* the loop and the Ok arm of line 75, which drops the stream.
ReadLine ==
    /\ pc = "read"
    /\ \E ok \in BOOLEAN :
         IF ok
         THEN /\ UNCHANGED <<stderr, exit_code, fault>>
              /\ LET n == LineLen(rest)
                 IN  IF n = 0
                     THEN /\ open' = drop_stream(open, Len(connects))
                          /\ pc' = "decide"
                          /\ UNCHANGED <<line, rest, stdout>>
                     ELSE /\ line' = line \o SubSeq(rest, 1, n)
                          /\ rest' = SubSeq(rest, n + 1, Len(rest))
                          /\ stdout' = print_str(stdout, line')
                          /\ pc' = "scan"
                          /\ UNCHANGED open
         ELSE /\ fault' = "read"
              /\ open' = {}
              /\ fatal_error(MsgReading \o host \o MsgComma \o ErrDescription)
              /\ UNCHANGED <<line, rest, stdout>>
    /\ UNCHANGED <<argv, argi, host, port, query_vec, query, previous_hosts,
                   nhost, net, connects, sent>>

\* Lines 91-108 and 130: the prefix loop over the line just printed.  Each
\* quantifier binds one intermediate string of the code.
Scan ==
    /\ pc = "scan"
    /\ \E trimmed_line \in {trim_left(line)} :
       \E m \in {MatchFrom(trimmed_line, 1)} :
         IF m # 0
         THEN /\ \E after \in {SubSeq(trimmed_line, Len(Prefixes[m]) + 1,
                                       Len(trimmed_line))} :
                   nhost' = ExtractHost(after)
              /\ pc' = "copy"
              /\ UNCHANGED line
         ELSE /\ line' = <<>>
              /\ pc' = "read"
              /\ UNCHANGED nhost
    /\ UNCHANGED <<argv, argi, host, port, query_vec, query, previous_hosts,
                   rest, net, open, stdout, stderr, exit_code, connects, sent,
                   fault>>

\* std::io::copy(&mut reader, &mut stdout), lines 111-122.  A copy that fails
\* has written some leading part of what was left.
CopyRest ==
    /\ pc = "copy"
    /\ \E ok \in BOOLEAN :
         IF ok
         THEN /\ stdout' = io_copy(stdout, rest)
              /\ rest' = <<>>
              /\ open' = drop_stream(open, Len(connects))
              /\ pc' = "decide"
              /\ UNCHANGED <<stderr, exit_code, fault>>
         ELSE /\ \E k \in 0..Len(rest) :
                    /\ stdout' = io_copy(stdout, SubSeq(rest, 1, k))
                    /\ rest' = SubSeq(rest, k + 1, Len(rest))
              /\ fault' = "copy"
              /\ open' = {}
              /\ fatal_error(MsgPrinting \o host \o MsgComma \o ErrDescription)
    /\ UNCHANGED <<argv, argi, host, port, query_vec, query, previous_hosts,
                   nhost, line, net, connects, sent>>

\* Lines 136-154: self-referral, loop detection, advance.
Decide ==
    /\ pc = "decide"
    /\ IF SelfReferral(host, nhost)
       THEN /\ pc' = "Done"
            /\ exit_code' = 0
            /\ UNCHANGED <<host, previous_hosts, stderr>>
       ELSE LET p == position(previous_hosts, nhost)
            IN  IF p # 0
                THEN /\ fatal_error(MsgLoop \o nhost \o Lf
                         \o join(SubSeq(previous_hosts, p + 1,
                                        Len(previous_hosts)), Lf))
                     /\ UNCHANGED <<host, previous_hosts>>
                ELSE /\ previous_hosts' = push(previous_hosts, host)
                     /\ host' = nhost
                     /\ pc' = "while"
                     /\ UNCHANGED <<stderr, exit_code>>
    /\ UNCHANGED <<argv, argi, port, query_vec, query, nhost, line, rest, net,
                   open, stdout, connects, sent, fault>>

Next ==
    \/ ArgHelp
    \/ ArgHost
    \/ ArgPort
    \/ ArgQuery
    \/ ArgsDone
    \/ WhileHost
    \/ Connect
    \/ Send
    \/ ReadLine
    \/ Scan
    \/ CopyRest
    \/ Decide

Spec == Init /\ [][Next]_vars

\* Every step of main completes: the scheduling the termination claim needs.
FairSpec == Spec /\ WF_vars(Next)

TypeOK ==
    /\ pc \in {"args", "while", "connect", "send", "read", "scan", "copy",
               "decide", "Done", "exit"}
    /\ exit_code \in {-1, 0, 1}
    /\ port \in 0..U16Max
    /\ fault \in {"none", "connect", "send", "read", "copy"}

\* ------------------------------------------------------------ properties
Terminal == {"Done", "exit"}

\* The hosts of a sequence of connect calls.
HostsOf(cs) == [i \in 1..Len(cs) |-> cs[i][1]]

NoRepeat(v) == \A i, j \in 1..Len(v) : i # j => v[i] # v[j]

IsPrefixOf(a, b) == Len(a) <= Len(b) /\ SubSeq(b, 1, Len(a)) = a

\* The process ended by the referral-loop diagnostic of lines 145-149.
LoopError == pc = "exit" /\ exit_code = 1 /\ IsPrefixOf(MsgLoop, stderr)

\* The referral one whole response carries: the candidate of its first line
\* that starts, after leading whitespace, with a listed prefix.
RECURSIVE FirstReferral(_)
FirstReferral(bytes) ==
    IF bytes = <<>> THEN [has |-> FALSE, host |-> <<>>]
    ELSE LET n == LineLen(bytes)
             t == trim_left(SubSeq(bytes, 1, n))
             m == MatchFrom(t, 1)
         IN  IF m # 0
             THEN [has |-> TRUE,
                   host |-> ExtractHost(SubSeq(t, Len(Prefixes[m]) + 1, Len(t)))]
             ELSE FirstReferral(SubSeq(bytes, n + 1, Len(bytes)))

\* The referral chain of world w from host h: the distinct servers H1..Hn
\* reached by following referrals until a response without a referral
\* line; <<>> when the walk leaves the world, repeats a host or meets an
\* empty candidate.
RECURSIVE ChainOf(_, _, _)
ChainOf(w, h, acc) ==
    IF h \notin DOMAIN w \/ h \in Range(acc) THEN <<>>
    ELSE LET r == FirstReferral(w[h])
         IN  IF r.has THEN ChainOf(w, r.host, Append(acc, h))
             ELSE Append(acc, h)

\* The responses of the hosts of ch, one after the other.
RECURSIVE ResponsesOf(_, _)
ResponsesOf(w, ch) ==
    IF ch = <<>> THEN <<>> ELSE w[Head(ch)] \o ResponsesOf(w, Tail(ch))

\* C1: in a world whose referral chain from the first host contacted is
\* loop-free, H1 -> ... -> Hn with no referral line in Hn's response, the
\* exchanges are made against H1..Hn in that order and never beyond, and a
\* run without an exchange error ends in Done after exactly n exchanges,
\* with visited list H1..Hn and with the n full responses, in order, as its
\* output.
C1_ChainRun ==
    connects # <<>> =>
        LET ch == ChainOf(net, connects[1][1], <<>>)
        IN  ch # <<>> =>
              /\ IsPrefixOf(HostsOf(connects), ch)
              /\ (pc \in Terminal /\ fault = "none") =>
                    /\ pc = "Done"
                    /\ HostsOf(connects) = ch
                    /\ Len(sent) = Len(ch)
                    /\ \A i \in 1..Len(ch) : sent[i].host = ch[i]
                    /\ previous_hosts = ch
                    /\ stdout = ResponsesOf(net, ch)

C1_Witness ==
    /\ pc = "Done" /\ fault = "none" /\ Len(connects) = 3
    /\ ChainOf(net, connects[1][1], <<>>) = HostsOf(connects)
    /\ stdout = ResponsesOf(net, previous_hosts)

\* A world in which the first host contacted, A, refers to another server B
\* and B refers back to A.
ChainABA ==
    /\ connects # <<>>
    /\ LET a == connects[1][1]
       IN  /\ a \in DOMAIN net
           /\ LET ra == FirstReferral(net[a])
              IN  /\ ra.has /\ ra.host # a /\ ra.host \in DOMAIN net
                  /\ FirstReferral(net[ra.host]) = [has |-> TRUE, host |-> a]

C2_State ==
    ChainABA =>
        /\ Len(connects) <= 2
        /\ (pc \in Terminal /\ fault = "none") =>
              (LoopError /\ Len(connects) = 2)

C2_Step ==
    /\ (pc = "decide" /\ nhost # host /\ nhost \in Range(previous_hosts)) =>
          (LoopError' /\ connects' = connects /\ sent' = sent)
    /\ ~LoopError

\* C2: for A -> B -> A exactly two exchanges are made, never a third, and
\* the run ends in LoopError; in general a candidate that differs from the
\* current host and is in the visited list ends the run in LoopError at
\* that decision, without a further exchange, and nothing happens after
\* LoopError.
C2_LoopDetected == []C2_State /\ [][C2_Step]_vars

C2_Witness ==
    ChainABA /\ LoopError /\ Len(connects) = 2 /\ fault = "none"

C3_Step ==
    /\ (pc = "decide" /\ nhost = host) =>
          /\ pc' = "Done" /\ exit_code' = 0
          /\ connects' = connects /\ sent' = sent
          /\ stderr' = stderr /\ previous_hosts' = previous_hosts
    /\ pc # "Done"

\* C3: a candidate equal to the current host ends the run in Done, with
\* exit status 0 and no diagnostic, without a further exchange, whatever
\* the visited list holds; nothing happens after Done.
C3_SelfReferral == [][C3_Step]_vars

C3_Witness ==
    /\ pc = "Done" /\ nhost = host /\ host # <<>>
    /\ previous_hosts # <<>> /\ stderr = <<>>

\* The text Whois Server:   example.net. of that property, as a whole line.
LineDot == RespDot

HostExampleNet == <<"e", "x", "a", "m", "p", "l", "e", ".", "n", "e", "t">>

HostExampleNetDot == <<"e", "x", "a", "m", "p", "l", "e", ".", "n", "e", "t", ".">>

RECURSIVE StripRightWs(_)
StripRightWs(s) ==
    IF s # <<>> /\ is_whitespace(s[Len(s)])
    THEN StripRightWs(SubSeq(s, 1, Len(s) - 1))
    ELSE s

IsSuffixOf(a, b) ==
    Len(a) <= Len(b) /\ SubSeq(b, Len(b) - Len(a) + 1, Len(b)) = a

\* C4 as stated: the candidate of the line Whois Server:   example.net. is
\* example.net, the trailing period stripped.
C4_PeriodStripped ==
    (pc = "copy" /\ line = LineDot) => nhost = HostExampleNet

\* C4, amended: extraction strips the trailing whitespace and the line
\* terminator and lower-cases, and keeps a trailing period: the candidate of
\* Whois Server:   example.net. is example.net. and, for any matched line
\* whose value ends in a period, the candidate is the lower-cased tail of
\* the line up to and including that period.
C4_PeriodKept ==
    pc = "copy" =>
        /\ line = LineDot => nhost = HostExampleNetDot
        /\ LET b == to_ascii_lowercase(StripRightWs(line))
           IN  b[Len(b)] = "." =>
                 /\ nhost # <<>>
                 /\ IsSuffixOf(nhost, b)
                 /\ ~is_whitespace(nhost[1])

C4_Witness ==
    pc = "copy" /\ line = LineDot /\ nhost = HostExampleNetDot

\* The line, after its leading whitespace, starts with a listed prefix,
\* letter case included.
HasListedPrefix(l) ==
    \E i \in 1..Len(Prefixes) : \E k \in 0..Len(l) :
        /\ \A j \in 1..k : is_whitespace(l[j])
        /\ k + Len(Prefixes[i]) <= Len(l)
        /\ SubSeq(l, k + 1, k + Len(Prefixes[i])) = Prefixes[i]

\* The line WHOIS SERVER: Example.COM of that property.
LineWrongCase == RespWrongCase

C5_Step ==
    pc = "scan" =>
        /\ (pc' = "copy") <=> HasListedPrefix(line)
        /\ ~HasListedPrefix(line) => (pc' = "read" /\ nhost' = nhost)
        /\ line = LineWrongCase => (pc' = "read" /\ nhost' = nhost)

C5_State ==
    pc = "copy" => \A i \in 1..Len(nhost) : nhost[i] \notin UpperSet

\* C5: a line the scan inspects yields a referral exactly when, after its
\* leading whitespace, it starts with one of the five prefixes, compared
\* case-sensitively; WHOIS SERVER: Example.COM yields none; the candidate
\* of a matched line holds no upper-case ASCII letter.
C5_CaseSensitivePrefix == []C5_State /\ [][C5_Step]_vars

C5_Witness ==
    /\ pc = "copy" /\ nhost = HostC
    /\ \E i \in 1..Len(line) : line[i] \in UpperSet

\* C6: when every step of an exchange completes, the run reaches a terminal
\* state, Done or a fatal exit (LoopError or an exchange error), and no
\* hostname is ever contacted twice.
C6_Termination ==
    /\ <>(pc \in Terminal)
    /\ [](NoRepeat(HostsOf(connects)))

C6_Witness ==
    /\ pc \in Terminal /\ Len(connects) = 3 /\ fault = "none"
    /\ NoRepeat(HostsOf(connects))

C7_State ==
    /\ NoRepeat(previous_hosts)
    /\ host \notin Range(previous_hosts)

C7_Step ==
    /\ \/ previous_hosts' = previous_hosts
       \/ /\ Len(previous_hosts') = Len(previous_hosts) + 1
          /\ IsPrefixOf(previous_hosts, previous_hosts')
    /\ connects' # connects =>
          connects'[Len(connects')][1] \notin Range(previous_hosts)

\* C7: the visited list changes only by one element appended at its end,
\* holds no hostname twice, never holds the current host, and no connect is
\* made to a hostname it holds.
C7_VisitedList == []C7_State /\ [][C7_Step]_vars

C7_Witness ==
    /\ pc = "read" /\ Len(previous_hosts) = 2 /\ Len(connects) = 3
    /\ HostsOf(connects) = Append(previous_hosts, host)

C8_State ==
    fault # "none" => (pc = "exit" /\ exit_code = 1)

C8_Step ==
    /\ fault = "none"
    /\ fault' # "none" =>
          /\ pc' = "exit" /\ exit_code' = 1
          /\ sent' = sent /\ line' = line /\ nhost' = nhost
          /\ host' = host /\ previous_hosts' = previous_hosts
          /\ fault' # "connect" => connects' = connects

\* C8: the step on which connect, the write of the query, read_line or the
\* copy of the remainder fails ends the process with exit status 1, reads
\* no line, takes no referral decision and starts no exchange, and no step
\* follows it.
C8_ExchangeErrorFatal == []C8_State /\ [][C8_Step]_vars

C8_Witness ==
    /\ fault = "read" /\ pc = "exit" /\ exit_code = 1
    /\ Len(connects) = 2 /\ Len(stdout) > Len(net[connects[1][1]])

\* The arguments that are neither -h or -p nor the value that follows one.
RECURSIVE NonFlagArgs(_)
NonFlagArgs(a) ==
    IF a = <<>> THEN <<>>
    ELSE IF Head(a) \in {OptHost, OptPort}
         THEN IF Len(a) >= 2 THEN NonFlagArgs(Tail(Tail(a))) ELSE <<>>
         ELSE <<Head(a)>> \o NonFlagArgs(Tail(a))

\* The words of v with one space between neighbours.
RECURSIVE SpaceJoined(_)
SpaceJoined(v) ==
    IF v = <<>> THEN <<>>
    ELSE IF Len(v) = 1 THEN v[1]
    ELSE SpaceJoined(SubSeq(v, 1, Len(v) - 1)) \o <<" ">> \o v[Len(v)]

\* The number a string of decimal digits denotes.
RECURSIVE DecimalValue(_)
DecimalValue(s) ==
    IF s = <<>> THEN 0
    ELSE 10 * DecimalValue(SubSeq(s, 1, Len(s) - 1))
         + (IndexOf(DigitSeq, s[Len(s)]) - 1)

\* The string is the text of an unsigned 16-bit integer.
IsU16Text(s) ==
    LET d == IF s # <<>> /\ s[1] = "+" THEN Tail(s) ELSE s
    IN  /\ d # <<>>
        /\ \A i \in 1..Len(d) : d[i] \in Range(DigitSeq)
        /\ DecimalValue(d) <= 65535

\* The port the arguments configure: the value of the last -p, else 43.
RECURSIVE ConfiguredPort(_, _)
ConfiguredPort(a, cur) ==
    IF Len(a) < 2 THEN cur
    ELSE IF Head(a) = OptPort THEN ConfiguredPort(Tail(Tail(a)), DecimalValue(a[2]))
    ELSE IF Head(a) = OptHost THEN ConfiguredPort(Tail(Tail(a)), cur)
    ELSE ConfiguredPort(Tail(a), cur)

\* C9: every write sends the non-flag arguments joined by single spaces
\* followed by carriage return and line feed (these two bytes alone when
\* there is no such argument), to the host just connected; every connect,
\* on every hop, uses the configured port.
C9_SameQueryAndPort ==
    /\ Len(sent) <= Len(connects)
    /\ \A i \in 1..Len(sent) :
          /\ sent[i].bytes = SpaceJoined(NonFlagArgs(argv)) \o <<"\r", "\n">>
          /\ NonFlagArgs(argv) = <<>> => sent[i].bytes = <<"\r", "\n">>
          /\ sent[i].host = connects[i][1]
          /\ sent[i].port = connects[i][2]
    /\ \A i \in 1..Len(connects) : connects[i][2] = ConfiguredPort(argv, 43)

C9_Witness ==
    /\ Len(sent) = 2 /\ sent[1].host # sent[2].host
    /\ sent[2].port = 7 /\ sent[2].bytes = <<"B", "\r", "\n">>

\* Position i of the argument list is not the value of a preceding -h or -p.
RECURSIVE OptionAt(_, _)
OptionAt(a, i) ==
    i = 1 \/ ~(OptionAt(a, i - 1) /\ a[i - 1] \in {OptHost, OptPort})

\* At position i stands a -h or -p without a value, or a -p whose value is
\* not the text of an unsigned 16-bit integer.
BadOption(a, i) ==
    /\ OptionAt(a, i)
    /\ \/ a[i] \in {OptHost, OptPort} /\ i = Len(a)
       \/ a[i] = OptPort /\ i < Len(a) /\ ~IsU16Text(a[i + 1])

HelpBefore(a, i) == \E j \in 1..(i - 1) : OptionAt(a, j) /\ a[j] = OptHelp

RECURSIVE LineFeeds(_)
LineFeeds(s) ==
    IF s = <<>> THEN 0
    ELSE (IF Head(s) = "\n" THEN 1 ELSE 0) + LineFeeds(Tail(s))

\* The error stream holds exactly one line.
OneLine(s) == s # <<>> /\ s[Len(s)] = "\n" /\ LineFeeds(s) = 1

\* The statuses and the silence on the error stream that both statements of
\* the exit contract share.
ExitStatuses ==
    /\ pc = "Done" => (exit_code = 0 /\ stderr = <<>>)
    /\ exit_code = 0 => stderr = <<>>
    /\ exit_code = -1 => (pc \notin Terminal /\ stderr = <<>>)
    /\ fault # "none" => (pc = "exit" /\ exit_code = 1)
    /\ stderr # <<>> => (pc = "exit" /\ exit_code = 1)

\* C11 as stated: every exit with a non-zero status has printed a single
\* diagnostic line, and Done exits with status 0 and an empty error stream.
C11_AsStated ==
    /\ ExitStatuses
    /\ (pc = "exit" /\ exit_code = 1) => OneLine(stderr)

\* C11, amended: every fatal condition prints one diagnostic message, ended
\* by a line feed, and exits with status 1; the message is a single line
\* for argument, connect, send and receive errors and has three or more
\* lines for a referral loop (the heading, the looping host, the rest of
\* the visited list); Done exits with status 0 and prints nothing to the
\* error stream.
C11_ExitContract ==
    /\ ExitStatuses
    /\ (pc = "exit" /\ exit_code = 1) =>
          /\ stderr # <<>> /\ stderr[Len(stderr)] = "\n"
          /\ IF IsPrefixOf(MsgLoop, stderr)
             THEN LineFeeds(stderr) >= 3
             ELSE OneLine(stderr)

C11_Witness ==
    LoopError /\ LineFeeds(stderr) = 3 /\ Len(previous_hosts) = 2

C12_State ==
    /\ Cardinality(open) <= 1
    /\ open \subseteq {Len(connects)}
    /\ pc = "Done" => open = {}

C12_Step ==
    connects' # connects =>
        /\ open = {}
        /\ rest = <<>>
        /\ stdout = ResponsesOf(net, HostsOf(connects))

\* C12: at most one connection is open in any state, and it is the latest
\* one; when a connect is made every earlier connection is closed and the
\* whole response of every earlier hop is on standard output.
C12_OneExchangeInFlight == []C12_State /\ [][C12_Step]_vars

C12_Witness ==
    /\ pc = "scan" /\ Len(connects) = 3 /\ open = {3}
    /\ IsPrefixOf(ResponsesOf(net, previous_hosts), stdout)

\* Host h stands on a line of its own in the text s.
OnOwnLine(h, s) ==
    \E k \in 1..Len(s) :
        /\ s[k] = "\n"
        /\ k + Len(h) + 1 <= Len(s)
        /\ SubSeq(s, k + 1, k + Len(h)) = h
        /\ s[k + Len(h) + 1] = "\n"

\* C13: the diagnostic of a run that ends in LoopError names the looping
\* host and every host of the visited list.
C13_LoopMessageFullChain ==
    LoopError =>
        /\ OnOwnLine(nhost, stderr)
        /\ \A i \in 1..Len(previous_hosts) : OnOwnLine(previous_hosts[i], stderr)

\* The hosts the query was written to, in order.
SentHosts == [i \in 1..Len(sent) |-> sent[i].host]

C14_State ==
    /\ sent = <<>> => stdout \in {<<>>, Usage}
    /\ sent # <<>> =>
          /\ IsPrefixOf(stdout, ResponsesOf(net, SentHosts))
          /\ IsPrefixOf(ResponsesOf(net, SubSeq(SentHosts, 1, Len(sent) - 1)),
                        stdout)
    /\ (pc \in {"read", "scan", "copy"} \/ fault \in {"read", "copy"}) =>
          stdout \o rest = ResponsesOf(net, SentHosts)
    /\ pc = "scan" => (line # <<>> /\ IsSuffixOf(line, stdout))
    /\ pc = "decide" => stdout = ResponsesOf(net, SentHosts)

C14_Step ==
    /\ IsPrefixOf(stdout, stdout')
    /\ (pc \in {"read", "copy"} /\ rest' # rest) =>
          /\ IsSuffixOf(rest', rest)
          /\ stdout' = stdout \o SubSeq(rest, 1, Len(rest) - Len(rest'))

\* C14: standard output only grows; what a step takes from the stream it
\* appends to standard output in that step, before the line is inspected
\* and before the next read, so that in every state, also after a read
\* error, a failed copy, a failed connect or a LoopError, the output is the
\* responses of the earlier hops followed by exactly the part of the
\* current response read so far.
C14_StreamingOrder == []C14_State /\ [][C14_Step]_vars

C14_Witness ==
    /\ pc = "exit" /\ fault = "read" /\ Len(sent) = 2
    /\ rest # <<>> /\ Len(stdout) > Len(net[sent[1].host])

C15_State ==
    pc = "decide" =>
        /\ LET r == FirstReferral(net[host])
           IN  nhost = IF r.has THEN r.host ELSE <<>>
        /\ IsSuffixOf(net[host], stdout)

C15_Step ==
    pc = "copy" =>
        /\ nhost' = nhost
        /\ pc' \in {"decide", "exit"}
        /\ pc' = "decide" => (stdout' = stdout \o rest /\ rest' = <<>>)

\* C15: the candidate a hop decides on is that of the first line of its
\* response that matches a prefix; once it is set no later line is
\* inspected and it does not change, and the decision is taken only after
\* every remaining byte of the response has been appended, unchanged, to
\* standard output.
C15_FirstReferralWins == []C15_State /\ [][C15_Step]_vars

C15_Witness ==
    /\ pc = "decide" /\ net[host] = RespToC /\ nhost = HostC
    /\ IsSuffixOf(RespToC, stdout)

\* The lines ReferralServer:  whois://C/ and ReferralServer:  whois://b:43
\* of the responses.
LineSlash == SubSeq(RespToC, 3, Len(RespToC) - 9)

LinePort == RespPort

\* C16: the candidate of a ReferralServer line whose value ends in a slash
\* or in a port is the lower-cased hostname alone.
C16_SlashAndPortStripped ==
    pc = "copy" =>
        /\ line = LineSlash => nhost = HostC
        /\ line = LinePort => nhost = HostB

\* The hosts the run has connected to, in order.
ConnectedHosts == [i \in 1..Len(connects) |-> connects[i][1]]

C17_State ==
    /\ EmptyStr \notin Range(previous_hosts)
    /\ EmptyStr \notin Range(ConnectedHosts)
    /\ \A i \in 1..Len(sent) : sent[i].host # EmptyStr
    /\ (pc \in Terminal /\ fault = "none" /\ connects # <<>>) =>
          LET last == connects[Len(connects)][1]
              r == FirstReferral(net[last])
          IN  (r.has /\ r.host = EmptyStr) =>
                 /\ pc = "Done" /\ exit_code = 0 /\ stderr = <<>>
                 /\ host = EmptyStr
                 /\ previous_hosts[Len(previous_hosts)] = last

C17_Step ==
    /\ (pc = "decide" /\ nhost = EmptyStr) =>
          /\ pc' = "while" /\ host' = EmptyStr
          /\ previous_hosts' = Append(previous_hosts, host)
          /\ UNCHANGED <<connects, sent, stdout, stderr, exit_code>>
    /\ (pc = "while" /\ host = EmptyStr) =>
          /\ pc' = "Done" /\ exit_code' = 0
          /\ UNCHANGED <<connects, sent, stdout, stderr, previous_hosts>>

\* C17: a hop whose first matching line gives the empty candidate ends the
\* run in Done with status 0 and an empty standard error, as a hop without
\* referral does: the decision moves to the loop test with the empty host
\* and the loop test ends the run, neither step connecting, sending or
\* printing; a later matching line of the response changes nothing; the
\* empty string is never in the visited list, and no connection or query
\* is ever made to an empty host, an empty -h value included.
C17_EmptyCandidateTerminal == []C17_State /\ [][C17_Step]_vars

C17_Witness ==
    /\ pc = "Done" /\ Len(connects) = 2 /\ fault = "none"
    /\ net[connects[2][1]] = RespEmpty
    /\ FirstReferral(RespEmpty) = [has |-> TRUE, host |-> EmptyStr]
    /\ host = EmptyStr /\ Len(previous_hosts) = 2

====
